---- MODULE Spec2Model ----
(***************************************************************************)
(* Model of the upload / filter dashboard of DatalysisPro.                 *)
(*                                                                         *)
(* The component modelled is BusinessAnalyticsDashboard                    *)
(* (src/unnamed/part_001); DataVisualization (src/unnamed/part_003) has    *)
(* the same handlers line for line except that it keeps no fileName, that  *)
(* its calculateStats leaves the sum out, and that it renders a JSON       *)
(* button next to the two export buttons.                                  *)
(*                                                                         *)
(* JavaScript values are tagged records [t, v].  JavaScript strings that   *)
(* the code inspects character by character (file names, cell texts,       *)
(* filter predicates) are sequences of one-character strings; column       *)
(* names and error messages, which the code only compares and copies,      *)
(* are plain strings.                                                      *)
(***************************************************************************)
EXTENDS Integers, Sequences, FiniteSets, TLC

\* ------------------------------------------------------------------------
\* Bounds of the model
\* ------------------------------------------------------------------------
\* largest number of rows a file of the pool may decode to
MaxRows == 4
\* largest number of entries the FilterSet may hold
MaxFilterEntries == 2

\* ------------------------------------------------------------------------
\* JavaScript values
\* ------------------------------------------------------------------------
Undefined == [t |-> "undefined", v |-> 0]
Null == [t |-> "null", v |-> 0]
Str(s) == [t |-> "string", v |-> s]
Num(n) == [t |-> "number", v |-> n]
Bool(b) == [t |-> "boolean", v |-> b]
\* an object is its own enumerable keys in Object.keys order, each with its value
Obj(entries) == [t |-> "object", v |-> entries]
Arr(elems) == [t |-> "array", v |-> elems]

\* row[key]: the value of an own key, undefined when the key is absent
RECURSIVE GetEntry(_, _, _)
GetEntry(entries, key, i) ==
  IF i > Len(entries) THEN Undefined
  ELSE IF entries[i][1] = key THEN entries[i][2]
  ELSE GetEntry(entries, key, i + 1)

\* does evaluating x[key] raise a TypeError (x is null or undefined)
GetThrows(x) == x.t \in {"null", "undefined"}

\* x[key] for a key that is a column name
Get(x, key) == IF x.t = "object" THEN GetEntry(x.v, key, 1) ELSE Undefined

\* x[0]
First(x) ==
  IF x.t = "array" THEN (IF Len(x.v) > 0 THEN x.v[1] ELSE Undefined)
  ELSE IF x.t = "string" THEN (IF Len(x.v) > 0 THEN Str(<<x.v[1]>>) ELSE Undefined)
  ELSE Undefined

\* x.length === 0 (objects, numbers and booleans have length undefined)
LengthIsZero(x) == x.t \in {"array", "string"} /\ Len(x.v) = 0

\* x.length > 0
LengthPositive(x) == x.t \in {"array", "string"} /\ Len(x.v) > 0

\* variant of ObjectKeys that lists the keys of an object last to first
ObjectKeys_Reversed(x) ==
  IF x.t = "object" THEN [i \in 1..Len(x.v) |-> x.v[Len(x.v) + 1 - i][1]]
  ELSE IF x.t = "string" THEN [i \in 1..Len(x.v) |-> "0"]
  ELSE <<>>

\* Object.keys(x); the caller has excluded null and undefined
ObjectKeys(x) ==
  IF x.t = "object" THEN [i \in 1..Len(x.v) |-> x.v[i][1]]
  ELSE IF x.t = "string" THEN [i \in 1..Len(x.v) |-> "0"]
  ELSE <<>>

\* ------------------------------------------------------------------------
\* Strings
\* ------------------------------------------------------------------------
UpperChars == <<"A","B","C","D","E","F","G","H","I","J","K","L","M",
                "N","O","P","Q","R","S","T","U","V","W","X","Y","Z">>
LowerChars == <<"a","b","c","d","e","f","g","h","i","j","k","l","m",
                "n","o","p","q","r","s","t","u","v","w","x","y","z">>

\* the lower-case letter of each upper-case letter
LowerOf == [c \in {UpperChars[i] : i \in 1..26} |->
              LowerChars[CHOOSE i \in 1..26 : UpperChars[i] = c]]

LowerChar(c) == IF c \in DOMAIN LowerOf THEN LowerOf[c] ELSE c

\* s.toLowerCase()
toLowerCase(s) == [i \in 1..Len(s) |-> LowerChar(s[i])]

Digits == <<"0","1","2","3","4","5","6","7","8","9">>

RECURSIVE NatToString(_)
NatToString(n) ==
  IF n < 10 THEN <<Digits[n + 1]>>
  ELSE NatToString(n \div 10) \o <<Digits[(n % 10) + 1]>>

\* String(x)
String(x) ==
  CASE x.t = "string" -> x.v
    [] x.t = "number" -> IF x.v < 0 THEN <<"-">> \o NatToString(-x.v) ELSE NatToString(x.v)
    [] x.t = "boolean" -> IF x.v THEN <<"t","r","u","e">> ELSE <<"f","a","l","s","e">>
    [] x.t = "null" -> <<"n","u","l","l">>
    [] x.t = "undefined" -> <<"u","n","d","e","f","i","n","e","d">>
    [] OTHER -> <<"[","o","b","j","e","c","t"," ","O","b","j","e","c","t","]">>

\* s.startsWith(p, i) at the 1-based position i
RECURSIVE MatchAt(_, _, _, _)
MatchAt(s, p, i, j) ==
  IF j > Len(p) THEN TRUE
  ELSE IF s[i + j - 1] # p[j] THEN FALSE
  ELSE MatchAt(s, p, i, j + 1)

\* s.includes(p): scan the start positions left to right
RECURSIVE IncludesFrom(_, _, _)
IncludesFrom(s, p, i) ==
  IF i + Len(p) - 1 > Len(s) THEN FALSE
  ELSE IF MatchAt(s, p, i, 1) THEN TRUE
  ELSE IncludesFrom(s, p, i + 1)

\* variant of includes that finds no empty text
includes_NonEmpty(s, p) == Len(p) > 0 /\ IncludesFrom(s, p, 1)

includes(s, p) == IncludesFrom(s, p, 1)

\* name.endsWith(suffix)
endsWith(name, suffix) ==
  /\ Len(suffix) <= Len(name)
  /\ MatchAt(name, suffix, Len(name) - Len(suffix) + 1, 1)

\* ------------------------------------------------------------------------
\* parseFloat
\* ------------------------------------------------------------------------
NaN == [t |-> "NaN", v |-> 0]
Infinity(sign) == [t |-> "Infinity", v |-> sign]

IsDigit(c) == \E i \in 1..10 : Digits[i] = c
DigitValue(c) == (CHOOSE i \in 1..10 : Digits[i] = c) - 1

\* index of the first character of s at or after i that is not white space
RECURSIVE SkipSpace(_, _)
SkipSpace(s, i) ==
  IF i <= Len(s) /\ s[i] = " " THEN SkipSpace(s, i + 1) ELSE i

\* value of the longest run of decimal digits of s starting at i, given the
\* value acc of the digits already consumed
RECURSIVE DigitRun(_, _, _)
DigitRun(s, i, acc) ==
  IF i <= Len(s) /\ IsDigit(s[i]) THEN DigitRun(s, i + 1, acc * 10 + DigitValue(s[i]))
  ELSE acc

InfinityChars == <<"I","n","f","i","n","i","t","y">>

\* parseFloat(x): x is converted to a string, leading white space is skipped,
\* an optional sign and the longest numeric prefix are read.  The texts of
\* the model carry no fraction or exponent part, so the prefix is a run of
\* digits or the word Infinity.
parseFloat(x) ==
  LET s == String(x)
      i == SkipSpace(s, 1)
      neg == i <= Len(s) /\ s[i] = "-"
      j == IF i <= Len(s) /\ s[i] \in {"+", "-"} THEN i + 1 ELSE i
  IN  IF j + 7 <= Len(s) /\ MatchAt(s, InfinityChars, j, 1)
        THEN Infinity(IF neg THEN -1 ELSE 1)
      ELSE IF j <= Len(s) /\ IsDigit(s[j])
        THEN Num(IF neg THEN -DigitRun(s, j, 0) ELSE DigitRun(s, j, 0))
      ELSE NaN

isNaN(n) == n.t = "NaN"

\* variant of SomeNumericFrom that takes only finite numbers
RECURSIVE SomeNumericFrom_Finite(_, _, _)
SomeNumericFrom_Finite(rows, col, i) ==
  IF i > Len(rows) THEN "false"
  ELSE IF GetThrows(rows[i]) THEN "throw"
  ELSE IF parseFloat(Get(rows[i], col)).t = "number" THEN "true"
  ELSE SomeNumericFrom_Finite(rows, col, i + 1)

\* rows.some(row => !isNaN(parseFloat(row[col]))), evaluated left to right
\* with short circuit: "true", "false", or "throw" when a row that is
\* reached is null or undefined
RECURSIVE SomeNumericFrom(_, _, _)
SomeNumericFrom(rows, col, i) ==
  IF i > Len(rows) THEN "false"
  ELSE IF GetThrows(rows[i]) THEN "throw"
  ELSE IF ~isNaN(parseFloat(Get(rows[i], col))) THEN "true"
  ELSE SomeNumericFrom(rows, col, i + 1)

SomeNumeric(rows, col) == SomeNumericFrom(rows, col, 1)

\* columns.find(col => rows.some(...)): [threw, found, col]
RECURSIVE FindNumericFrom(_, _, _)
FindNumericFrom(rows, columns, i) ==
  IF i > Len(columns) THEN [threw |-> FALSE, found |-> FALSE, col |-> ""]
  ELSE LET r == SomeNumeric(rows, columns[i])
       IN  IF r = "throw" THEN [threw |-> TRUE, found |-> FALSE, col |-> ""]
           ELSE IF r = "true" THEN [threw |-> FALSE, found |-> TRUE, col |-> columns[i]]
           ELSE FindNumericFrom(rows, columns, i + 1)

FindNumeric(rows, columns) == FindNumericFrom(rows, columns, 1)

\* ------------------------------------------------------------------------
\* Files the user can pick
\* ------------------------------------------------------------------------
\* A file is its name and what each parser makes of its content:
\*   workbook = outcome of XLSX.read (the sheets in SheetNames order, each as
\*              the rows sheet_to_json gives for it),
\*   json     = outcome of JSON.parse on its text.
Threw == [threw |-> TRUE, value |-> Null]
Parsed(x) == [threw |-> FALSE, value |-> x]
File(name, workbook, json) == [name |-> name, workbook |-> workbook, json |-> json]

North == <<"N","o","r","t","h">>
South == <<"S","o","u","t","h">>

RowNorth == Obj(<< <<"region", Str(North)>>, <<"amount", Num(10)>> >>)
RowSouth == Obj(<< <<"region", Str(South)>>, <<"amount", Str(<<"2","0">>)>> >>)
\* a row whose amount cell is empty: sheet_to_json leaves the key out
RowNoAmount == Obj(<< <<"region", Str(South)>> >>)
\* a JSON row with its keys in another order and a null cell
RowNullRegion == Obj(<< <<"amount", Num(7)>>, <<"region", Null>> >>)
RowText == Obj(<< <<"region", Str(South)>>, <<"note", Str(<<"x">>)>> >>)
RowJunk == Obj(<< <<"[", Str(<<"{">>)>> >>)
\* four rows whose amount cells are 10, "20", "abc", 30
RowTen == Obj(<< <<"amount", Num(10)>>, <<"note", Str(InfinityChars)>> >>)
RowTwenty == Obj(<< <<"amount", Str(<<"2","0">>)>>, <<"note", Str(<<"x">>)>> >>)
RowAbc == Obj(<< <<"amount", Str(<<"a","b","c">>)>>, <<"note", Str(<<"N","o">>)>> >>)
RowThirty == Obj(<< <<"amount", Num(30)>>, <<"note", Str(<<"x">>)>> >>)

FilePool == {
  File(<<"s",".","c","s","v">>, Parsed(<< <<RowNorth, RowSouth>> >>), Threw),
  File(<<"b",".","x","l","s","x">>,
       Parsed(<< <<RowSouth, RowNoAmount>>, <<RowNorth>> >>), Threw),
  File(<<"h",".","x","l","s">>, Parsed(<< <<>> >>), Threw),
  File(<<"k",".","c","s","v">>, Threw, Threw),
  File(<<"r",".","j","s","o","n">>,
       Parsed(<< <<RowJunk>> >>), Parsed(Arr(<<RowNullRegion, RowNorth>>))),
  File(<<"e",".","j","s","o","n">>, Parsed(<< <<RowJunk>> >>), Parsed(Arr(<<>>))),
  File(<<"x",".","j","s","o","n">>, Parsed(<< <<RowJunk>> >>), Threw),
  File(<<"o",".","j","s","o","n">>,
       Parsed(<< <<RowJunk>> >>), Parsed(Obj(<< <<"region", Str(North)>> >>))),
  File(<<"n",".","j","s","o","n">>, Parsed(<< <<RowJunk>> >>), Parsed(Null)),
  File(<<"q",".","j","s","o","n">>, Parsed(<< <<RowJunk>> >>), Parsed(Str(<<"a","b">>))),
  File(<<"i",".","j","s","o","n">>, Parsed(<< <<RowJunk>> >>), Parsed(Num(7))),
  File(<<"z",".","j","s","o","n">>, Parsed(<< <<RowJunk>> >>), Parsed(Arr(<<Null>>))),
  File(<<"m",".","j","s","o","n">>, Parsed(<< <<RowJunk>> >>), Parsed(Arr(<<RowText, Null>>))),
  File(<<"t",".","t","x","t">>, Parsed(<< <<RowNorth>> >>), Parsed(Arr(<<RowNorth>>))),
  File(<<"g",".","c","s","v">>,
       Parsed(<< <<RowNorth, RowSouth, RowNoAmount, RowSouth, RowNorth>> >>), Threw),
  File(<<"v",".","j","s","o","n">>,
       Parsed(<< <<RowJunk>> >>), Parsed(Arr(<<RowTen, RowTwenty, RowAbc, RowThirty>>)))
}

\* the largest number of rows either parser makes of the file
RowCount(f) ==
  LET w == IF f.workbook.threw THEN 0 ELSE Len(f.workbook.value[1])
      j == IF ~f.json.threw /\ f.json.value.t = "array" THEN Len(f.json.value.v) ELSE 0
  IN  IF w > j THEN w ELSE j

Files == {f \in FilePool : RowCount(f) <= MaxRows}

\* texts the user types into a filter input
Predicates == { <<>>, <<"N","o">>, <<"u","n","d">> }

\* ------------------------------------------------------------------------
\* State of the component
\* ------------------------------------------------------------------------
VARIABLES
  data,             \* useState<DataRow[]>([]): whatever setData was last given
  loading,          \* useState(false)
  error,            \* useState("")
  viewMode,         \* "table" | "visualization"
  xAxis,            \* column name or ""
  yAxis,            \* column name or ""
  filters,          \* Record<string, string>: column name -> predicate text
  showFilters,      \* useState(false)
  selectedColumns,  \* string[]
  fileName,         \* name of the file last picked, <<>> when none
  pending,          \* FileReaders that were started and have not called back
  calls,            \* the upload or export handler that ran last, then the
                    \* parser, encoder and setData / setError calls it made
  crashed,          \* a render raised: React has unmounted the component
  download,         \* the file the handler that ran last gave the browser to save
  \* FileUpload control
  isLoading,        \* useState(false)
  toasts,           \* titles of the notifications toast() was given, in order
  onUploadCalls,    \* file types of the calls of the onUpload prop, in order
  awaiting,         \* handleFileChange is suspended at await onUpload(file)
  \* page shell (DataInsightPro)
  activeTab,        \* useState('home')
  selectedFile,     \* file, useState<File | null>(null): its name as a string
  isAnalyzing,      \* useState(false)
  results,          \* useState<AnalysisResult | null>(null)
  timers            \* number of setTimeout callbacks that have not run

\* state of BusinessAnalyticsDashboard
dashboardVars == <<data, loading, error, viewMode, xAxis, yAxis, filters, showFilters,
                   selectedColumns, fileName, pending, calls, crashed, download>>

\* state of FileUpload
fileUploadVars == <<isLoading, toasts, onUploadCalls, awaiting>>

\* state of DataInsightPro
pageVars == <<activeTab, selectedFile, isAnalyzing, results, timers>>

vars == <<dashboardVars, fileUploadVars, pageVars>>

NoFilters == [c \in {} |-> <<>>]

\* number of leading columns selected by default after an upload
DefaultColumns == 5

\* ------------------------------------------------------------------------
\* Derived values of a render (useMemo)
\* ------------------------------------------------------------------------
\* variant of RowPasses that compares with the predicate as typed
RowPasses_CaseSensitive(row, f) ==
  \A key \in DOMAIN f :
    includes(toLowerCase(String(Get(row, key))), f[key])

\* Object.entries(f).every(([key, value]) =>
\*   String(row[key]).toLowerCase().includes(value.toLowerCase()))
RowPasses(row, f) ==
  \A key \in DOMAIN f :
    includes(toLowerCase(String(Get(row, key))), toLowerCase(f[key]))

\* variant of FilterRows that collects the passing rows last to first
RECURSIVE FilterRows_Reversed(_, _, _)
FilterRows_Reversed(rows, f, i) ==
  IF i > Len(rows) THEN <<>>
  ELSE IF RowPasses(rows[i], f)
    THEN FilterRows_Reversed(rows, f, i + 1) \o <<rows[i]>>
  ELSE FilterRows_Reversed(rows, f, i + 1)

\* variant of FilterRows that removes a rejected row while it walks the
\* array, so that the row after a rejected one is kept without being tested
RECURSIVE FilterRows_SkipAfterRemoval(_, _, _)
FilterRows_SkipAfterRemoval(rows, f, i) ==
  IF i > Len(rows) THEN <<>>
  ELSE IF RowPasses(rows[i], f)
    THEN <<rows[i]>> \o FilterRows_SkipAfterRemoval(rows, f, i + 1)
  ELSE IF i + 1 > Len(rows) THEN <<>>
  ELSE <<rows[i + 1]>> \o FilterRows_SkipAfterRemoval(rows, f, i + 2)

\* rows.filter(row => ...): the rows that pass, in their order
RECURSIVE FilterRows(_, _, _)
FilterRows(rows, f, i) ==
  IF i > Len(rows) THEN <<>>
  ELSE IF RowPasses(rows[i], f) THEN <<rows[i]>> \o FilterRows(rows, f, i + 1)
  ELSE FilterRows(rows, f, i + 1)

\* Object.keys(d[0]).filter(key => d.some(row => !isNaN(parseFloat(row[key]))))
RECURSIVE NumericOf(_, _, _)
NumericOf(rows, columns, i) ==
  IF i > Len(columns) THEN <<>>
  ELSE IF SomeNumeric(rows, columns[i]) = "true"
    THEN <<columns[i]>> \o NumericOf(rows, columns, i + 1)
  ELSE NumericOf(rows, columns, i + 1)

\* does the useMemo body raise for the data d and the filters f
MemoThrows(d, f) ==
  IF LengthIsZero(d) THEN FALSE
  ELSE IF d.t # "array" THEN TRUE
  ELSE \/ GetThrows(First(d))
       \/ \E i \in 1..Len(ObjectKeys(First(d))) :
            SomeNumeric(d.v, ObjectKeys(First(d))[i]) = "throw"
       \/ (DOMAIN f # {} /\ \E i \in 1..Len(d.v) : GetThrows(d.v[i]))

\* the filteredData member of the useMemo result (for a value that is not
\* an array the body raises before the filter runs, see MemoThrows)
FilteredOf(d, f) ==
  IF LengthIsZero(d) \/ d.t # "array" THEN <<>> ELSE FilterRows(d.v, f, 1)

\* the numericColumns member of the useMemo result
NumericColumnsOf(d) ==
  IF LengthIsZero(d) \/ d.t # "array" \/ GetThrows(First(d)) THEN <<>>
  ELSE NumericOf(d.v, ObjectKeys(First(d)), 1)

\* does the JSX below the useMemo raise: the column count card reads
\* Object.keys(filteredData[0]) and the table reads row[key] of every row shown
ViewThrows(d, f, ld, vm, sel) ==
  LET fd == FilteredOf(d, f)
  IN  /\ Len(fd) > 0
      /\ ~ld
      /\ \/ GetThrows(fd[1])
         \/ vm = "table" /\ Len(sel) > 0 /\ \E i \in 1..Len(fd) : GetThrows(fd[i])

\* d is an array whose elements can all be read as rows: the useMemo and
\* the JSX read data only through data.length, data[0], data.some,
\* data.filter, Object.keys(row) and row[key], none of which raises for
\* such a value
RowsReadable(d) == d.t = "array" /\ \A i \in 1..Len(d.v) : ~GetThrows(d.v[i])

RenderThrows(d, f, ld, vm, sel) ==
  ~RowsReadable(d) /\ (MemoThrows(d, f) \/ ViewThrows(d, f, ld, vm, sel))

\* variant of useMemo that classifies the columns over the filtered rows
useMemo_FromFiltered(d, f) ==
  [filteredData |-> FilteredOf(d, f),
   numericColumns |-> NumericColumnsOf(Arr(FilteredOf(d, f)))]

\* the value of the useMemo for the dependencies [data, filters]: numericCols
\* is computed from data, filtered from data and filters
useMemo(d, f) ==
  [filteredData |-> FilteredOf(d, f), numericColumns |-> NumericColumnsOf(d)]

filteredData == FilteredOf(data, filters)
numericColumns == useMemo(data, filters).numericColumns

\* Object.keys(data[0]) as the rendered controls use it
columnsOfData == ObjectKeys(First(data))

\* s.includes(c) for an array s
IsIn(s, c) == \E i \in 1..Len(s) : s[i] = c

\* the block under "Main Content" is rendered
MainShown == ~crashed /\ ~loading /\ Len(filteredData) > 0

\* ------------------------------------------------------------------------
\* calculateStats
\* ------------------------------------------------------------------------
\* JavaScript numbers are Num(n), Infinity(sign), NaN and, for a quotient
\* that is not an integer, Fraction(n, d) in lowest terms; the rounding of
\* floating point is left out
Fraction(n, d) == [t |-> "fraction", v |-> <<n, d>>]

RECURSIVE GCD(_, _)
GCD(a, b) == IF b = 0 THEN a ELSE GCD(b, a % b)

Abs(n) == IF n < 0 THEN -n ELSE n

\* a + b
Add(a, b) ==
  IF a.t = "NaN" \/ b.t = "NaN" THEN NaN
  ELSE IF a.t = "Infinity" THEN (IF b.t = "Infinity" /\ b.v # a.v THEN NaN ELSE a)
  ELSE IF b.t = "Infinity" THEN b
  ELSE Num(a.v + b.v)

\* a < b, for numbers that are not NaN
Less(a, b) ==
  IF a.t = "Infinity" THEN a.v < 0 /\ ~(b.t = "Infinity" /\ b.v < 0)
  ELSE IF b.t = "Infinity" THEN b.v > 0
  ELSE a.v < b.v

\* a / n for an array length n
Divide(a, n) ==
  IF a.t = "NaN" THEN NaN
  ELSE IF a.t = "Infinity" THEN a
  ELSE IF n = 0 THEN (IF a.v = 0 THEN NaN ELSE Infinity(IF a.v < 0 THEN -1 ELSE 1))
  ELSE IF a.v % n = 0 THEN Num(a.v \div n)
  ELSE LET g == GCD(Abs(a.v), n)
       IN  Fraction((IF a.v < 0 THEN -1 ELSE 1) * (Abs(a.v) \div g), n \div g)

\* rows.map(row => parseFloat(row[column])).filter(v => !isNaN(v))
RECURSIVE StatValues(_, _, _)
StatValues(rows, column, i) ==
  IF i > Len(rows) THEN <<>>
  ELSE LET v == parseFloat(Get(rows[i], column))
       IN  IF isNaN(v) THEN StatValues(rows, column, i + 1)
           ELSE <<v>> \o StatValues(rows, column, i + 1)

\* values.reduce((a, b) => a + b, 0)
RECURSIVE SumFrom(_, _, _)
SumFrom(values, i, acc) ==
  IF i > Len(values) THEN acc ELSE SumFrom(values, i + 1, Add(acc, values[i]))

\* Math.max(...values): -Infinity for no values
RECURSIVE MaxFrom(_, _, _)
MaxFrom(values, i, acc) ==
  IF i > Len(values) THEN acc
  ELSE MaxFrom(values, i + 1, IF Less(acc, values[i]) THEN values[i] ELSE acc)

\* Math.min(...values): Infinity for no values
RECURSIVE MinFrom(_, _, _)
MinFrom(values, i, acc) ==
  IF i > Len(values) THEN acc
  ELSE MinFrom(values, i + 1, IF Less(values[i], acc) THEN values[i] ELSE acc)

\* the object calculateStats returns for the values it has collected
Summary(values) ==
  LET sum == SumFrom(values, 1, Num(0))
  IN  Obj(<< <<"avg", Divide(sum, Len(values))>>,
             <<"max", MaxFrom(values, 1, Infinity(-1))>>,
             <<"min", MinFrom(values, 1, Infinity(1))>>,
             <<"sum", sum>> >>)

\* does calculateStats raise: row[column] of a row that is null or undefined
CalculateStatsThrows(rows) == \E i \in 1..Len(rows) : GetThrows(rows[i])

\* variant of calculateStats without the values.length test
calculateStats_NoEmptyTest(column) ==
  Summary(StatValues(filteredData, column, 1))

\* calculateStats(column), which reads filteredData: null or the Summary
calculateStats(column) ==
  LET values == StatValues(filteredData, column, 1)
  IN  IF Len(values) = 0 THEN Null ELSE Summary(values)

\* ------------------------------------------------------------------------
\* Decoding (the try block of reader.onload up to the length test)
\* ------------------------------------------------------------------------
DotCsv == <<".","c","s","v">>
DotXlsx == <<".","x","l","s","x">>
DotXls == <<".","x","l","s">>
DotJson == <<".","j","s","o","n">>

\* the FileReader call handleFileUpload ends with
ReaderMode(name) == IF endsWith(name, DotJson) THEN "text" ELSE "arraybuffer"

\* variant of ReadFirstSheet that converts the last sheet of the workbook
ReadFirstSheet_LastSheet(file, type) ==
  IF file.workbook.threw
    THEN [threw |-> TRUE, msg |-> "XLSX.read failed", value |-> Null,
          calls |-> <<type>>]
  ELSE [threw |-> FALSE, msg |-> "",
        value |-> Arr(file.workbook.value[Len(file.workbook.value)]),
        calls |-> <<type, "sheet_to_json">>]

\* XLSX.read(data, {type}), SheetNames[0], sheet_to_json
ReadFirstSheet(file, type) ==
  IF file.workbook.threw
    THEN [threw |-> TRUE, msg |-> "XLSX.read failed", value |-> Null,
          calls |-> <<type>>]
  ELSE [threw |-> FALSE, msg |-> "", value |-> Arr(file.workbook.value[1]),
        calls |-> <<type, "sheet_to_json">>]

\* JSON.parse(data as string): the text of the file when the reader was
\* started with readAsText, the text "[object ArrayBuffer]" otherwise
ParseJson(file, mode) ==
  IF mode # "text" \/ file.json.threw
    THEN [threw |-> TRUE, msg |-> "SyntaxError", value |-> Null,
          calls |-> <<"JSON.parse">>]
  ELSE [threw |-> FALSE, msg |-> "", value |-> file.json.value,
        calls |-> <<"JSON.parse">>]

\* variant of Decode whose last branch hands the file to the workbook parser
\* instead of raising
Decode_AnySuffix(file, mode) ==
  IF endsWith(file.name, DotCsv) THEN ReadFirstSheet(file, "XLSX.read binary")
  ELSE IF endsWith(file.name, DotJson) THEN ParseJson(file, mode)
  ELSE ReadFirstSheet(file, "XLSX.read array")

\* the if / else-if chain on file.name: [threw, msg, value, calls]
Decode(file, mode) ==
  IF endsWith(file.name, DotCsv) THEN ReadFirstSheet(file, "XLSX.read binary")
  ELSE IF endsWith(file.name, DotXlsx) \/ endsWith(file.name, DotXls)
    THEN ReadFirstSheet(file, "XLSX.read array")
  ELSE IF endsWith(file.name, DotJson) THEN ParseJson(file, mode)
  ELSE [threw |-> TRUE, msg |-> "Unsupported file format", value |-> Null,
        calls |-> <<>>]

\* columns.slice(0, Math.min(5, columns.length))
DefaultSelection(columns) ==
  SubSeq(columns, 1, IF Len(columns) < DefaultColumns THEN Len(columns) ELSE DefaultColumns)

\* What reader.onload leaves in the state, as a record of the values the
\* setters were last given.  A setter that ran before an exception was raised
\* keeps its effect; catch sets the error.

\* the state as the handler finds it, with the calls of the decode
Found(dec) ==
  [data |-> data, selectedColumns |-> selectedColumns, xAxis |-> xAxis,
   yAxis |-> yAxis, error |-> error, calls |-> <<"reader.onload">> \o dec.calls]

\* variant of Install that adds the decoded rows to the rows already held
Install_Appends(dec) ==
  [Found(dec) EXCEPT
     !.data = IF data.t = "array" /\ dec.value.t = "array"
                THEN Arr(data.v \o dec.value.v) ELSE dec.value,
     !.calls = @ \o <<"setData">>]

\* from setData(jsonData) to the end of the try block
Install(dec) ==
  LET jsonData == dec.value
      first == First(jsonData)
      columns == ObjectKeys(first)
      installed == [Found(dec) EXCEPT !.data = jsonData, !.calls = @ \o <<"setData">>]
      withColumns == [installed EXCEPT
                        !.selectedColumns = DefaultSelection(columns),
                        !.xAxis = IF Len(columns) > 0 THEN columns[1] ELSE xAxis]
      firstNumeric == FindNumeric(jsonData.v, columns)
  IN  IF GetThrows(first) THEN [installed EXCEPT !.error = "TypeError"]
      ELSE IF Len(columns) <= 1 THEN withColumns
      ELSE IF jsonData.t # "array" \/ firstNumeric.threw
        THEN [withColumns EXCEPT !.error = "TypeError"]
      ELSE [withColumns EXCEPT
              !.yAxis = IF firstNumeric.found THEN firstNumeric.col ELSE columns[2]]

\* variant of Process without the jsonData.length test
Process_NoLengthTest(dec) ==
  IF dec.threw THEN [Found(dec) EXCEPT !.error = dec.msg]
  ELSE IF GetThrows(dec.value) THEN [Found(dec) EXCEPT !.error = "TypeError"]
  ELSE Install(dec)

\* the try block after the decode: the jsonData.length test, then Install
Process(dec) ==
  IF dec.threw THEN [Found(dec) EXCEPT !.error = dec.msg]
  ELSE IF GetThrows(dec.value) THEN [Found(dec) EXCEPT !.error = "TypeError"]
  ELSE IF LengthIsZero(dec.value)
    THEN [Found(dec) EXCEPT !.error = "No data found in the file"]
  ELSE Install(dec)

\* variant of OnLoadResult that drops the result of a file that is not
\* the one picked last
OnLoadResult_LatestOnly(p) ==
  IF p.file.name = fileName THEN Process(Decode(p.file, p.mode))
  ELSE Found([calls |-> <<>>])

\* the whole body of reader.onload for the reader p
OnLoadResult(p) == Process(Decode(p.file, p.mode))

\* ------------------------------------------------------------------------
\* JSON text
\* ------------------------------------------------------------------------
\* A JSON text is the sequence of its tokens; white space, which the
\* indentation argument 2 adds, is no token.  A token is its kind and its
\* characters: a string or a key carries its content, a number its digits,
\* a literal the word null, true or false.
Tok(k, v) == [k |-> k, v |-> v]
Punct(k) == Tok(k, <<>>)
NullLiteral == Tok("literal", <<"n","u","l","l">>)

\* variant of OwnEntries that lists the entries last to first
OwnEntries_Reversed(x) ==
  LET kept == SelectSeq(x.v, LAMBDA e : e[2].t # "undefined")
  IN  [i \in 1..Len(kept) |-> kept[Len(kept) + 1 - i]]

\* the entries of an object JSON.stringify writes: a key whose value is
\* undefined is left out
OwnEntries(x) == SelectSeq(x.v, LAMBDA e : e[2].t # "undefined")

\* JSON.stringify(x): a number that is not finite and an undefined array
\* element are written as null
RECURSIVE JsonTokens(_)
RECURSIVE ElementTokens(_, _)
RECURSIVE EntryTokens(_, _)
ElementTokens(elems, i) ==
  IF i > Len(elems) THEN <<>>
  ELSE (IF i > 1 THEN <<Punct(",")>> ELSE <<>>)
       \o JsonTokens(elems[i]) \o ElementTokens(elems, i + 1)

EntryTokens(entries, i) ==
  IF i > Len(entries) THEN <<>>
  ELSE (IF i > 1 THEN <<Punct(",")>> ELSE <<>>)
       \o <<Tok("key", <<entries[i][1]>>), Punct(":")>>
       \o JsonTokens(entries[i][2]) \o EntryTokens(entries, i + 1)

JsonTokens(x) ==
  CASE x.t = "array" -> <<Punct("[")>> \o ElementTokens(x.v, 1) \o <<Punct("]")>>
    [] x.t = "object" -> <<Punct("{")>> \o EntryTokens(OwnEntries(x), 1) \o <<Punct("}")>>
    [] x.t = "string" -> <<Tok("string", x.v)>>
    [] x.t = "number" -> <<Tok("number", String(x))>>
    [] x.t = "boolean" -> <<Tok("literal", String(x))>>
    [] OTHER -> <<NullLiteral>>

\* the number a number token denotes
NumberOf(s) ==
  IF Len(s) > 0 /\ s[1] = "-" THEN Num(-DigitRun(s, 2, 0)) ELSE Num(DigitRun(s, 1, 0))

\* JSON.parse by recursive descent: [ok, value, next], next the index of
\* the first token after the value
ParseFailed == [ok |-> FALSE, value |-> Null, next |-> 0]
ParsedTo(x, n) == [ok |-> TRUE, value |-> x, next |-> n]

RECURSIVE ParseValue(_, _)
RECURSIVE ParseElements(_, _, _)
RECURSIVE ParseEntries(_, _, _)
ParseElements(toks, i, acc) ==
  LET r == ParseValue(toks, i)
  IN  IF ~r.ok \/ r.next > Len(toks) THEN ParseFailed
      ELSE IF toks[r.next].k = "," THEN ParseElements(toks, r.next + 1, Append(acc, r.value))
      ELSE IF toks[r.next].k = "]" THEN ParsedTo(Arr(Append(acc, r.value)), r.next + 1)
      ELSE ParseFailed

ParseEntries(toks, i, acc) ==
  IF i + 2 > Len(toks) \/ toks[i].k # "key" \/ toks[i + 1].k # ":" THEN ParseFailed
  ELSE LET r == ParseValue(toks, i + 2)
           entries == Append(acc, <<toks[i].v[1], r.value>>)
       IN  IF ~r.ok \/ r.next > Len(toks) THEN ParseFailed
           ELSE IF toks[r.next].k = "," THEN ParseEntries(toks, r.next + 1, entries)
           ELSE IF toks[r.next].k = "}" THEN ParsedTo(Obj(entries), r.next + 1)
           ELSE ParseFailed

ParseValue(toks, i) ==
  IF i > Len(toks) THEN ParseFailed
  ELSE CASE toks[i].k = "string" -> ParsedTo(Str(toks[i].v), i + 1)
         [] toks[i].k = "number" -> ParsedTo(NumberOf(toks[i].v), i + 1)
         [] toks[i].k = "literal" ->
              ParsedTo(IF toks[i] = NullLiteral THEN Null
                       ELSE Bool(toks[i].v = <<"t","r","u","e">>), i + 1)
         [] toks[i].k = "[" ->
              IF i < Len(toks) /\ toks[i + 1].k = "]" THEN ParsedTo(Arr(<<>>), i + 2)
              ELSE ParseElements(toks, i + 1, <<>>)
         [] toks[i].k = "{" ->
              IF i < Len(toks) /\ toks[i + 1].k = "}" THEN ParsedTo(Obj(<<>>), i + 2)
              ELSE ParseEntries(toks, i + 1, <<>>)
         [] OTHER -> ParseFailed

\* JSON.parse(text): the value, or a SyntaxError
JSONparse(text) ==
  LET r == ParseValue(text, 1)
  IN  IF r.ok /\ r.next = Len(text) + 1 THEN Parsed(r.value) ELSE Threw

\* ------------------------------------------------------------------------
\* exportData
\* ------------------------------------------------------------------------
ExportCsvName == <<"e","x","p","o","r","t",".","c","s","v">>
ExportXlsxName == <<"e","x","p","o","r","t",".","x","l","s","x">>
ExportJsonName == <<"e","x","p","o","r","t",".","j","s","o","n">>

\* A saved file: its name, the writer that made it, then the header row and
\* the rows of its one sheet (a workbook) or its text (a JSON file).
NoDownload ==
  [name |-> <<>>, kind |-> "none", columns |-> <<>>, rows |-> <<>>, text |-> <<>>]

\* the header json_to_sheet writes: the keys of the rows in the order in
\* which they first occur
RECURSIVE HeaderOf(_, _, _, _)
HeaderOf(rows, i, j, header) ==
  IF i > Len(rows) THEN header
  ELSE IF j > Len(ObjectKeys(rows[i])) THEN HeaderOf(rows, i + 1, 1, header)
  ELSE LET key == ObjectKeys(rows[i])[j]
       IN  HeaderOf(rows, i, j + 1, IF IsIn(header, key) THEN header ELSE Append(header, key))

\* XLSX.utils.json_to_sheet(filteredData) written by XLSX.writeFile under the
\* name export.csv or export.xlsx
Workbook(format) ==
  [name |-> IF format = "csv" THEN ExportCsvName ELSE ExportXlsxName,
   kind |-> IF format = "csv" THEN "csv" ELSE "xlsx",
   columns |-> HeaderOf(filteredData, 1, 1, <<>>),
   rows |-> filteredData,
   text |-> <<>>]

\* variant of ExportedFile whose JSON branch writes the selected columns only
ExportedFile_SelectedOnly(format) ==
  IF format \in {"csv", "excel"} THEN Workbook(format)
  ELSE [name |-> ExportJsonName, kind |-> "json", columns |-> <<>>, rows |-> <<>>,
        text |-> JsonTokens(Arr([i \in 1..Len(filteredData) |->
                   Obj(SelectSeq(filteredData[i].v,
                                 LAMBDA e : IsIn(selectedColumns, e[1])))]))]

\* the file the try block of exportData hands to the browser
ExportedFile(format) ==
  IF format \in {"csv", "excel"} THEN Workbook(format)
  ELSE [name |-> ExportJsonName, kind |-> "json", columns |-> <<>>, rows |-> <<>>,
        text |-> JsonTokens(Arr(filteredData))]

\* the call that encodes the rows
Encoder(format) == IF format \in {"csv", "excel"} THEN "XLSX.writeFile" ELSE "JSON.stringify"

\* variant of ExportOutcome that saves the file although the encoder raised
ExportOutcome_EmitsOnFailure(format, raises) ==
  IF raises
    THEN [error |-> "Failed to export data", download |-> ExportedFile(format),
          calls |-> <<"exportData", Encoder(format), "setError">>]
  ELSE [error |-> error, download |-> ExportedFile(format),
        calls |-> <<"exportData", Encoder(format)>>]

\* try { encode and save } catch { setError("Failed to export data") }
ExportOutcome(format, raises) ==
  IF raises
    THEN [error |-> "Failed to export data", download |-> NoDownload,
          calls |-> <<"exportData", Encoder(format), "setError">>]
  ELSE [error |-> error, download |-> ExportedFile(format),
        calls |-> <<"exportData", Encoder(format)>>]

\* the saved JSON file as the user picks it again: the workbook parser is
\* not asked for a name that ends in .json
DownloadedFile == File(download.name, Parsed(<< <<RowJunk>> >>), JSONparse(download.text))

\* ------------------------------------------------------------------------
\* Initial state and handlers
\* ------------------------------------------------------------------------
Init ==
  /\ data = Arr(<<>>)
  /\ loading = FALSE
  /\ error = ""
  /\ viewMode = "table"
  /\ xAxis = ""
  /\ yAxis = ""
  /\ filters = NoFilters
  /\ showFilters = FALSE
  /\ selectedColumns = <<>>
  /\ fileName = <<>>
  /\ pending = {}
  /\ calls = <<>>
  /\ crashed = FALSE
  /\ download = NoDownload
  /\ isLoading = FALSE
  /\ toasts = <<>>
  /\ onUploadCalls = <<>>
  /\ awaiting = FALSE
  /\ activeTab = "home"
  /\ selectedFile = Null
  /\ isAnalyzing = FALSE
  /\ results = Null
  /\ timers = 0

\* variant of InputDisabled for an input that is never disabled
InputDisabled_Never == FALSE

\* disabled={loading} of the file input
InputDisabled == loading

\* the body of handleFileUpload
handleFileUpload(file) ==
  /\ ~crashed
  /\ loading' = TRUE
  /\ error' = ""
  /\ filters' = NoFilters
  /\ xAxis' = ""
  /\ yAxis' = ""
  /\ selectedColumns' = <<>>
  /\ fileName' = file.name
  /\ pending' = pending \cup {[file |-> file, mode |-> ReaderMode(file.name)]}
  /\ calls' = <<"handleFileUpload">>
  /\ crashed' = RenderThrows(data, filters', loading', viewMode, selectedColumns')
  /\ UNCHANGED <<data, viewMode, showFilters>>
  /\ download' = NoDownload
  /\ UNCHANGED <<fileUploadVars, pageVars>>

\* handleFileUpload as the change event of the input calls it: the input
\* is disabled while loading
HandleFileUpload(file) == ~InputDisabled /\ handleFileUpload(file)

\* reader.onload
ReaderOnLoad(p) ==
  /\ ~crashed
  /\ p \in pending
  /\ LET r == OnLoadResult(p)
     IN  /\ data' = r.data
         /\ selectedColumns' = r.selectedColumns
         /\ xAxis' = r.xAxis
         /\ yAxis' = r.yAxis
         /\ error' = r.error
         /\ calls' = r.calls
  /\ loading' = FALSE
  /\ pending' = pending \ {p}
  /\ crashed' = RenderThrows(data', filters, loading', viewMode, selectedColumns')
  /\ UNCHANGED <<viewMode, filters, showFilters, fileName>>
  /\ download' = NoDownload
  /\ UNCHANGED <<fileUploadVars, pageVars>>

\* variant of ReaderOnError that leaves loading as it finds it
ReaderOnError_KeepsLoading(p) ==
  /\ ~crashed
  /\ p \in pending
  /\ error' = "Error reading file"
  /\ pending' = pending \ {p}
  /\ calls' = <<"reader.onerror">>
  /\ crashed' = RenderThrows(data, filters, loading, viewMode, selectedColumns)
  /\ UNCHANGED <<data, loading, viewMode, xAxis, yAxis, filters, showFilters,
                 selectedColumns, fileName>>
  /\ download' = NoDownload
  /\ UNCHANGED <<fileUploadVars, pageVars>>

\* reader.onerror
ReaderOnError(p) ==
  /\ ~crashed
  /\ p \in pending
  /\ error' = "Error reading file"
  /\ loading' = FALSE
  /\ pending' = pending \ {p}
  /\ calls' = <<"reader.onerror">>
  /\ crashed' = RenderThrows(data, filters, loading', viewMode, selectedColumns)
  /\ UNCHANGED <<data, viewMode, xAxis, yAxis, filters, showFilters,
                 selectedColumns, fileName>>
  /\ download' = NoDownload
  /\ UNCHANGED <<fileUploadVars, pageVars>>

\* Clear Data button, rendered while data.length > 0
ClearData ==
  /\ ~crashed
  /\ LengthPositive(data)
  /\ data' = Arr(<<>>)
  /\ filters' = NoFilters
  /\ fileName' = <<>>
  /\ calls' = <<>>
  /\ crashed' = RenderThrows(data', filters', loading, viewMode, selectedColumns)
  /\ UNCHANGED <<loading, error, viewMode, xAxis, yAxis, showFilters,
                 selectedColumns, pending>>
  /\ download' = NoDownload
  /\ UNCHANGED <<fileUploadVars, pageVars>>

\* Table View / Visualization buttons
SetViewMode(mode) ==
  /\ MainShown
  /\ viewMode' = mode
  /\ calls' = <<>>
  /\ crashed' = RenderThrows(data, filters, loading, viewMode', selectedColumns)
  /\ UNCHANGED <<data, loading, error, xAxis, yAxis, filters, showFilters,
                 selectedColumns, fileName, pending>>
  /\ download' = NoDownload
  /\ UNCHANGED <<fileUploadVars, pageVars>>

\* Show Filters / Hide Filters button
ToggleShowFilters ==
  /\ viewMode = "table"
  /\ MainShown
  /\ showFilters' = ~showFilters
  /\ calls' = <<>>
  /\ UNCHANGED <<data, loading, error, viewMode, xAxis, yAxis, filters,
                 selectedColumns, fileName, pending, crashed>>
  /\ download' = NoDownload
  /\ UNCHANGED <<fileUploadVars, pageVars>>

\* onChange of a filter input: setFilters({...filters, [column]: value})
SetFilter(column, value) ==
  /\ showFilters
  /\ viewMode = "table"
  /\ MainShown
  /\ IsIn(columnsOfData, column)
  /\ Cardinality(DOMAIN filters \cup {column}) <= MaxFilterEntries
  /\ filters' = [c \in DOMAIN filters \cup {column} |->
                   IF c = column THEN value ELSE filters[c]]
  /\ calls' = <<>>
  /\ crashed' = RenderThrows(data, filters', loading, viewMode, selectedColumns)
  /\ UNCHANGED <<data, loading, error, viewMode, xAxis, yAxis, showFilters,
                 selectedColumns, fileName, pending>>
  /\ download' = NoDownload
  /\ UNCHANGED <<fileUploadVars, pageVars>>

\* the X button next to a filter input, rendered while filters[column] is truthy
ClearFilter(column) ==
  /\ showFilters
  /\ viewMode = "table"
  /\ MainShown
  /\ column \in DOMAIN filters
  /\ filters[column] # <<>>
  /\ filters' = [c \in DOMAIN filters \ {column} |-> filters[c]]
  /\ calls' = <<>>
  /\ crashed' = RenderThrows(data, filters', loading, viewMode, selectedColumns)
  /\ UNCHANGED <<data, loading, error, viewMode, xAxis, yAxis, showFilters,
                 selectedColumns, fileName, pending>>
  /\ download' = NoDownload
  /\ UNCHANGED <<fileUploadVars, pageVars>>

\* variant of Without that also drops what follows the column
Without_Truncates(s, c) ==
  IF \E i \in 1..Len(s) : s[i] = c
    THEN SubSeq(s, 1, (CHOOSE i \in 1..Len(s) :
                         s[i] = c /\ \A j \in 1..(i - 1) : s[j] # c) - 1)
    ELSE s

\* sequence s without the elements equal to c: prev.filter(x => x !== c)
RECURSIVE Without(_, _)
Without(s, c) ==
  IF s = <<>> THEN <<>>
  ELSE IF Head(s) = c THEN Without(Tail(s), c)
  ELSE <<Head(s)>> \o Without(Tail(s), c)

\* toggleColumn, from the Visible Columns buttons
ToggleColumn(column) ==
  /\ viewMode = "table"
  /\ MainShown
  /\ IsIn(columnsOfData, column)
  /\ selectedColumns' = IF IsIn(selectedColumns, column)
                          THEN Without(selectedColumns, column)
                          ELSE Append(selectedColumns, column)
  /\ calls' = <<>>
  /\ crashed' = RenderThrows(data, filters, loading, viewMode, selectedColumns')
  /\ UNCHANGED <<data, loading, error, viewMode, xAxis, yAxis, filters,
                 showFilters, fileName, pending>>
  /\ download' = NoDownload
  /\ UNCHANGED <<fileUploadVars, pageVars>>

\* Select All button
SelectAll ==
  /\ viewMode = "table"
  /\ MainShown
  /\ selectedColumns' = columnsOfData
  /\ calls' = <<>>
  /\ crashed' = RenderThrows(data, filters, loading, viewMode, selectedColumns')
  /\ UNCHANGED <<data, loading, error, viewMode, xAxis, yAxis, filters,
                 showFilters, fileName, pending>>
  /\ download' = NoDownload
  /\ UNCHANGED <<fileUploadVars, pageVars>>

\* exportData, from the export buttons, rendered while data.length > 0;
\* raises tells whether the encoder raises
ExportData(format, raises) ==
  /\ ~crashed
  /\ LengthPositive(data)
  /\ IF Len(filteredData) = 0
       THEN /\ error' = error
            /\ download' = NoDownload
            /\ calls' = <<"exportData">>
       ELSE LET r == ExportOutcome(format, raises)
            IN  /\ error' = r.error
                /\ download' = r.download
                /\ calls' = r.calls
  /\ UNCHANGED <<data, loading, viewMode, xAxis, yAxis, filters, showFilters,
                 selectedColumns, fileName, pending, crashed>>
  /\ UNCHANGED <<fileUploadVars, pageVars>>

\* column names that occur in the files of the pool
ColumnNames == {"region", "amount", "note", "["}

Next ==
  \/ \E file \in Files : HandleFileUpload(file)
  \/ \E p \in pending : ReaderOnLoad(p)
  \/ \E p \in pending : ReaderOnError(p)
  \/ ClearData
  \/ \E mode \in {"table", "visualization"} : SetViewMode(mode)
  \/ ToggleShowFilters
  \/ \E column \in ColumnNames, value \in Predicates : SetFilter(column, value)
  \/ \E column \in DOMAIN filters : ClearFilter(column)
  \/ \E column \in ColumnNames : ToggleColumn(column)
  \/ SelectAll

Spec == Init /\ [][Next]_vars

\* the reader of an upload in flight fires onerror or onload
ReaderFires == \E p \in pending : ReaderOnError(p) \/ ReaderOnLoad(p)

\* the handlers, with a reader that does not stay silent for ever
FairSpec == Init /\ [][Next]_vars /\ WF_vars(ReaderFires)

\* largest number of decodes in flight in the runs with overlapping uploads
MaxInFlight == 2

\* the files picked in the runs with overlapping uploads
RaceFiles == {f \in Files : f.name \in {<<"s",".","c","s","v">>,
                                       <<"r",".","j","s","o","n">>,
                                       <<"x",".","j","s","o","n">>}}

\* handleFileUpload called for a change event that is dispatched to the
\* input whatever its disabled attribute: the handler has no test of its
\* own, a second reader starts beside the first
DispatchChange(file) ==
  /\ Cardinality(pending) < MaxInFlight
  /\ \A p \in pending : p.file # file
  /\ handleFileUpload(file)

\* the handlers with uploads that overlap
RaceNext ==
  \/ \E file \in RaceFiles : DispatchChange(file)
  \/ \E p \in pending : ReaderOnLoad(p)
  \/ \E p \in pending : ReaderOnError(p)
  \/ ClearData
  \/ \E mode \in {"table", "visualization"} : SetViewMode(mode)
  \/ ToggleShowFilters
  \/ \E column \in ColumnNames, value \in Predicates : SetFilter(column, value)
  \/ \E column \in DOMAIN filters : ClearFilter(column)
  \/ \E column \in ColumnNames : ToggleColumn(column)
  \/ SelectAll

RaceSpec == Init /\ [][RaceNext]_vars

\* rows for the defaults an upload sets: six columns with the only number
\* in the last, one column, two columns of text, and a column of the text
\* Infinity before a column of numbers
RowWide ==
  Obj(<< <<"region", Str(North)>>, <<"note", Str(<<"x">>)>>, <<"city", Str(<<"x">>)>>,
         <<"team", Str(<<"x">>)>>, <<"unit", Str(<<"x">>)>>, <<"amount", Num(10)>> >>)
RowOnlyAmount == Obj(<< <<"amount", Num(10)>> >>)
RowInfinityFirst == Obj(<< <<"note", Str(InfinityChars)>>, <<"amount", Num(10)>> >>)

\* the files picked in the runs about the defaults
DefaultsFiles == {
  File(<<"w",".","j","s","o","n">>, Parsed(<< <<RowJunk>> >>), Parsed(Arr(<<RowWide>>))),
  File(<<"a",".","c","s","v">>, Parsed(<< <<RowOnlyAmount>> >>), Threw),
  File(<<"c",".","j","s","o","n">>, Parsed(<< <<RowJunk>> >>), Parsed(Arr(<<RowText, RowText>>))),
  File(<<"f",".","j","s","o","n">>, Parsed(<< <<RowJunk>> >>), Parsed(Arr(<<RowInfinityFirst>>)))
}

\* the handlers over the files about the defaults
DefaultsNext ==
  \/ \E file \in DefaultsFiles : HandleFileUpload(file)
  \/ \E p \in pending : ReaderOnLoad(p)
  \/ \E p \in pending : ReaderOnError(p)
  \/ ClearData
  \/ \E mode \in {"table", "visualization"} : SetViewMode(mode)
  \/ ToggleShowFilters
  \/ \E column \in ColumnNames, value \in Predicates : SetFilter(column, value)
  \/ \E column \in DOMAIN filters : ClearFilter(column)
  \/ \E column \in ColumnNames : ToggleColumn(column)
  \/ SelectAll

DefaultsSpec == Init /\ [][DefaultsNext]_vars

\* the formats of the export buttons
Formats == {"csv", "excel", "json"}

\* the files picked in the runs that export
ExportFiles == {f \in Files : f.name = <<"r",".","j","s","o","n">>}

\* the handlers together with exportData; the file an export has saved can
\* be picked for the next upload
ExportNext ==
  \/ \E file \in ExportFiles : HandleFileUpload(file)
  \/ download.kind = "json" /\ HandleFileUpload(DownloadedFile)
  \/ \E p \in pending : ReaderOnLoad(p)
  \/ \E p \in pending : ReaderOnError(p)
  \/ ClearData
  \/ \E mode \in {"table", "visualization"} : SetViewMode(mode)
  \/ ToggleShowFilters
  \/ \E column \in ColumnNames, value \in Predicates : SetFilter(column, value)
  \/ \E column \in DOMAIN filters : ClearFilter(column)
  \/ \E column \in ColumnNames : ToggleColumn(column)
  \/ SelectAll
  \/ \E format \in Formats, raises \in BOOLEAN : ExportData(format, raises)

ExportSpec == Init /\ [][ExportNext]_vars

\* ------------------------------------------------------------------------
\* FileUpload control
\* ------------------------------------------------------------------------
\* largest number of notifications shown in a run
MaxToasts == 4

\* file.type of the files the user may select
MimeTypes == {"text/csv", "application/vnd.ms-excel", "application/json",
              "application/vnd.openxmlformats-officedocument.spreadsheetml.sheet",
              "text/plain", ""}

\* variant of validTypes that also lists the type of .xlsx files
validTypes_WithXlsx ==
  {"text/csv", "application/vnd.ms-excel", "application/json",
   "application/vnd.openxmlformats-officedocument.spreadsheetml.sheet"}

\* const validTypes
validTypes == {"text/csv", "application/vnd.ms-excel", "application/json"}

\* the input is rendered in the branch for !isLoading only
InputRendered == ~isLoading

\* handleFileChange up to the await: a type that is not valid gets the
\* notification and nothing else; otherwise onUpload is called.  A call
\* that raises at once is caught before any render: the notification of the
\* failure, and isLoading set and reset within the handler.
HandleFileChange(type, raises) ==
  /\ InputRendered
  /\ Len(toasts) < MaxToasts
  /\ IF type \notin validTypes
       THEN /\ toasts' = Append(toasts, "Invalid File Type")
            /\ UNCHANGED <<isLoading, onUploadCalls, awaiting>>
       ELSE /\ onUploadCalls' = Append(onUploadCalls, type)
            /\ IF raises
                 THEN /\ toasts' = Append(toasts, "Upload Failed")
                      /\ isLoading' = FALSE
                      /\ awaiting' = FALSE
                 ELSE /\ isLoading' = TRUE
                      /\ awaiting' = TRUE
                      /\ toasts' = toasts
  /\ UNCHANGED <<dashboardVars, pageVars>>

\* the promise of onUpload resolves: the rest of the try block, finally
OnUploadResolves ==
  /\ awaiting
  /\ toasts' = Append(toasts, "Upload Successful")
  /\ isLoading' = FALSE
  /\ awaiting' = FALSE
  /\ UNCHANGED <<onUploadCalls, dashboardVars, pageVars>>

\* the promise of onUpload rejects: catch, finally
OnUploadRejects ==
  /\ awaiting
  /\ toasts' = Append(toasts, "Upload Failed")
  /\ isLoading' = FALSE
  /\ awaiting' = FALSE
  /\ UNCHANGED <<onUploadCalls, dashboardVars, pageVars>>

FileUploadNext ==
  \/ \E type \in MimeTypes, raises \in BOOLEAN : HandleFileChange(type, raises)
  \/ OnUploadResolves
  \/ OnUploadRejects

FileUploadSpec == Init /\ [][FileUploadNext]_vars

\* ------------------------------------------------------------------------
\* Page shell (DataInsightPro)
\* ------------------------------------------------------------------------
\* values of Math.random() in ten-thousandths: the least and the greatest
Randoms == {0, 9999}

\* Math.floor(Math.random() * n) for the value r of Math.random()
FloorOf(r, n) == (r * n) \div 10000

\* the object the timer gives to setResults (charts and insights are fixed)
AnalysisResult(r1, r2, r3, r4) ==
  Obj(<< <<"summary",
           Obj(<< <<"records", Num(FloorOf(r1, 10000))>>,
                  <<"columns", Num(FloorOf(r2, 15) + 5)>>,
                  <<"anomalies", Num(FloorOf(r3, 50))>>,
                  <<"completeness",
                    Str(NatToString(FloorOf(r4, 15) + 85) \o <<"%">>)>> >>)>> >>)

\* names of the files the user may select
FileNames == {<<"a">>, <<"b">>}

Tabs == {"home", "features", "dashboard"}

\* variant of MainContent that shows the home content on the home tab and
\* on the dashboard tab without results only
MainContent_OnePerTab ==
  IF isAnalyzing THEN <<"Spinner">>
  ELSE IF activeTab = "features" THEN <<"FeaturesTab">>
  ELSE IF activeTab = "dashboard" /\ results # Null THEN <<"DashboardTab">>
  ELSE <<"HomeTab">>

\* the children of <main>, in order
MainContent ==
  IF isAnalyzing THEN <<"Spinner">>
  ELSE (IF activeTab = "home" THEN <<"HomeTab">> ELSE <<>>)
       \o (IF activeTab = "features" THEN <<"FeaturesTab">> ELSE <<>>)
       \o (IF activeTab = "dashboard" /\ results # Null
             THEN <<"DashboardTab">> ELSE <<"HomeTab">>)

\* onChange of the hidden input, which the Upload Data button of the home
\* content opens: setFile, then analyzeData up to setTimeout
SelectFile(name) ==
  /\ IsIn(MainContent, "HomeTab")
  /\ selectedFile' = Str(name)
  /\ isAnalyzing' = TRUE
  /\ timers' = timers + 1
  /\ UNCHANGED <<activeTab, results, dashboardVars, fileUploadVars>>

\* the callback of setTimeout
TimerFires(r1, r2, r3, r4) ==
  /\ timers > 0
  /\ results' = AnalysisResult(r1, r2, r3, r4)
  /\ isAnalyzing' = FALSE
  /\ activeTab' = "dashboard"
  /\ timers' = timers - 1
  /\ UNCHANGED <<selectedFile, dashboardVars, fileUploadVars>>

\* the buttons of the header, which is rendered during an analysis too
\* (Learn More of the home content and Back of the dashboard content set
\* tabs the header sets as well)
SetActiveTab(tab) ==
  /\ activeTab' = tab
  /\ UNCHANGED <<selectedFile, isAnalyzing, results, timers, dashboardVars, fileUploadVars>>

PageNext ==
  \/ \E name \in FileNames : SelectFile(name)
  \/ \E r1, r2, r3, r4 \in Randoms : TimerFires(r1, r2, r3, r4)
  \/ \E tab \in Tabs : SetActiveTab(tab)

PageSpec == Init /\ [][PageNext]_vars

\* the timer of an analysis does fire
PageFairSpec ==
  Init /\ [][PageNext]_vars /\ WF_vars(\E r1, r2, r3, r4 \in Randoms : TimerFires(r1, r2, r3, r4))

\* ------------------------------------------------------------------------
\* Properties of uploads
\* ------------------------------------------------------------------------
\* this step is a callback of the reader p
Resolved(p) == p \in pending /\ pending' = pending \ {p}

\* this step is reader.onload of the reader p
OnLoadStep(p) == Resolved(p) /\ Len(calls') > 0 /\ calls'[1] = "reader.onload"

\* the last k characters of name are suffix
HasSuffix(name, suffix) ==
  /\ Len(name) >= Len(suffix)
  /\ SubSeq(name, Len(name) - Len(suffix) + 1, Len(name)) = suffix

IsWorkbookName(name) ==
  HasSuffix(name, DotCsv) \/ HasSuffix(name, DotXlsx) \/ HasSuffix(name, DotXls)

Recognised(name) == IsWorkbookName(name) \/ HasSuffix(name, DotJson)

\* the parser calls among the calls of a handler
ParserCalls(cs) ==
  SelectSeq(cs, LAMBDA c : c \in {"XLSX.read binary", "XLSX.read array", "JSON.parse"})

\* the row sequence the parser chosen by the suffix makes of a file:
\* [ok, rows], ok false when the parser raises or the JSON root is no array
DecodedRows(file) ==
  IF IsWorkbookName(file.name)
    THEN [ok |-> ~file.workbook.threw,
          rows |-> IF file.workbook.threw THEN <<>> ELSE file.workbook.value[1]]
  ELSE IF HasSuffix(file.name, DotJson)
    THEN [ok |-> ~file.json.threw /\ file.json.value.t = "array",
          rows |-> IF ~file.json.threw /\ file.json.value.t = "array"
                     THEN file.json.value.v ELSE <<>>]
  ELSE [ok |-> FALSE, rows |-> <<>>]

\* C1: an upload that ends in an error leaves data as it was: every reader
\* callback (onload or onerror) that reports an error keeps data unchanged.
C1_FailedUploadKeepsData ==
  [][\A p \in pending : (Resolved(p) /\ error' # "") => data' = data]_vars

\* the parsed root of a .json file is not an array
NonArrayRoot(file) ==
  HasSuffix(file.name, DotJson) /\ ~file.json.threw /\ file.json.value.t # "array"

\* C2: the onload of a .json file whose parsed root is not an array sets an
\* error message and installs nothing, so data stays an array.
C2_NonArrayRootRejected ==
  [][\A p \in pending :
       (OnLoadStep(p) /\ NonArrayRoot(p.file))
         => (error' # "" /\ data' = data /\ data'.t = "array")]_vars

\* C3: the onload of a file with none of the four suffixes reports the
\* unsupported-format error, calls neither XLSX.read nor JSON.parse and does
\* not call setData.
C3_UnsupportedSuffixRejected ==
  [][\A p \in pending :
       (OnLoadStep(p) /\ ~Recognised(p.file.name))
         => /\ error' = "Unsupported file format"
            /\ calls' = <<"reader.onload">>
            /\ data' = data]_vars

\* an upload of a file with an unrecognised suffix has just been decoded
C3_Witness ==
  /\ calls = <<"reader.onload">>
  /\ ~Recognised(fileName)
  /\ error = "Unsupported file format"
  /\ ~loading

\* C4: when the decode yields zero rows the upload reports the empty-dataset
\* error and setData is not called with the empty sequence.
C4_EmptyDecodeRejected ==
  [][\A p \in pending :
       (OnLoadStep(p) /\ DecodedRows(p.file).ok /\ DecodedRows(p.file).rows = <<>>)
         => /\ error' = "No data found in the file"
            /\ ~IsIn(calls', "setData")
            /\ data' = data]_vars

\* an upload that decoded to zero rows has just been rejected, over a Dataset
\* installed before
C4_Witness ==
  /\ Len(calls) > 1
  /\ calls[1] = "reader.onload"
  /\ error = "No data found in the file"
  /\ data.t = "array"
  /\ Len(data.v) > 0

\* the keys of a row object in their order
KeyList(row) == [i \in 1..Len(row.v) |-> row.v[i][1]]

\* C5: a successful upload whose decoder output is N >= 1 rows installs
\* exactly those rows in their order, and the columns taken from it are the
\* keys of the first row in key order.
C5_UploadInstallsDecodedRows ==
  [][\A p \in pending :
       (/\ OnLoadStep(p)
        /\ error' = ""
        /\ DecodedRows(p.file).ok
        /\ Len(DecodedRows(p.file).rows) >= 1)
         => /\ data' = Arr(DecodedRows(p.file).rows)
            /\ columnsOfData' = KeyList(DecodedRows(p.file).rows[1])
            /\ selectedColumns' =
                 SubSeq(columnsOfData', 1,
                        IF Len(columnsOfData') < 5 THEN Len(columnsOfData') ELSE 5)
            /\ xAxis' = columnsOfData'[1]]_vars

\* a two-row JSON file has been installed; its first row lists amount
\* before region
C5_Witness ==
  /\ data = Arr(<<RowNullRegion, RowNorth>>)
  /\ error = ""
  /\ ~loading
  /\ calls = <<"reader.onload", "JSON.parse", "setData">>
  /\ selectedColumns = <<"amount", "region">>

\* C6 as stated: every onload runs exactly one of the three parse paths, the
\* one its suffix names.
C6_ExactlyOnePathPerUpload ==
  [][\A p \in pending :
       OnLoadStep(p)
         => /\ Len(ParserCalls(calls')) = 1
            /\ HasSuffix(p.file.name, DotCsv) => ParserCalls(calls') = <<"XLSX.read binary">>
            /\ (HasSuffix(p.file.name, DotXlsx) \/ HasSuffix(p.file.name, DotXls))
                 => ParserCalls(calls') = <<"XLSX.read array">>
            /\ HasSuffix(p.file.name, DotJson) => ParserCalls(calls') = <<"JSON.parse">>]_vars

\* C6 (amended): the path is chosen by the suffix alone: .csv runs the tabular
\* parse, .xlsx and .xls the binary workbook parse, both converting the first
\* sheet only, .json the JSON parse on a reader started in text mode; at
\* most one path runs per upload, exactly one when the suffix is one of the
\* four and none otherwise.
C6_DispatchBySuffix ==
  [][\A p \in pending :
       OnLoadStep(p)
         => /\ Len(ParserCalls(calls')) <= 1
            /\ Recognised(p.file.name) <=> Len(ParserCalls(calls')) = 1
            /\ HasSuffix(p.file.name, DotCsv) => ParserCalls(calls') = <<"XLSX.read binary">>
            /\ (HasSuffix(p.file.name, DotXlsx) \/ HasSuffix(p.file.name, DotXls))
                 => ParserCalls(calls') = <<"XLSX.read array">>
            /\ HasSuffix(p.file.name, DotJson) => ParserCalls(calls') = <<"JSON.parse">>
            /\ p.mode = (IF HasSuffix(p.file.name, DotJson) THEN "text" ELSE "arraybuffer")
            /\ (IsWorkbookName(p.file.name) /\ IsIn(calls', "setData"))
                 => data' = Arr(p.file.workbook.value[1])]_vars

\* a workbook of two sheets has been uploaded and its first sheet installed
C6_Witness ==
  /\ calls = <<"reader.onload", "XLSX.read array", "sheet_to_json", "setData">>
  /\ HasSuffix(fileName, DotXlsx)
  /\ data = Arr(<<RowSouth, RowNoAmount>>)
  /\ error = ""

\* ------------------------------------------------------------------------
\* Properties of the filtered view
\* ------------------------------------------------------------------------
\* p occurs in s as a run of consecutive characters
Contains(s, p) == \E i \in 0..(Len(s) - Len(p)) : SubSeq(s, i + 1, i + Len(p)) = p

\* a render has produced a filtered view of an array
ViewExists == ~crashed /\ data.t = "array"

\* C7: a row is in the filtered view iff, for every entry of the FilterSet,
\* the lower-cased string form of its cell contains the lower-cased
\* predicate; an empty FilterSet yields the whole Dataset.
C7_FilterSemantics ==
  ViewExists =>
    LET Pass(row) ==
          \A key \in DOMAIN filters :
            Contains(toLowerCase(String(Get(row, key))), toLowerCase(filters[key]))
    IN  /\ filteredData = SelectSeq(data.v, Pass)
        /\ DOMAIN filters = {} => filteredData = data.v

\* two entries are set, one with a capital letter, and they keep some rows
\* and reject others
C7_Witness ==
  /\ ViewExists
  /\ Cardinality(DOMAIN filters) = 2
  /\ \E key \in DOMAIN filters : filters[key] = <<"N","o">>
  /\ Len(filteredData) >= 1
  /\ Len(filteredData) < Len(data.v)

\* a is b with some elements left out
RECURSIVE IsSubsequence(_, _)
IsSubsequence(a, b) ==
  IF a = <<>> THEN TRUE
  ELSE IF b = <<>> THEN FALSE
  ELSE IF Head(a) = Head(b) THEN IsSubsequence(Tail(a), Tail(b))
  ELSE IsSubsequence(a, Tail(b))

\* this step is an edit of the FilterSet
FilterEdit ==
  \/ \E column \in ColumnNames, value \in Predicates : SetFilter(column, value)
  \/ \E column \in ColumnNames : ClearFilter(column)

\* C8: the filtered view is a subsequence of data (unmodified rows, none more
\* often than in data, in the order of data) after every step (the initial
\* view is the empty view of the empty data), and an edit of the FilterSet
\* leaves data unchanged.
C8_ViewIsSubsequence ==
  [][/\ (~crashed' /\ data'.t = "array")
          => IsSubsequence(FilteredOf(data', filters'), data'.v)
     /\ data' = data \/ ~FilterEdit]_vars

\* a filter keeps only the second of two rows
C8_Witness ==
  /\ ViewExists
  /\ DOMAIN filters # {}
  /\ Len(data.v) = 2
  /\ filteredData = <<data.v[2]>>

\* f with the entry of c set to value
WithEntry(f, c, value) ==
  [k \in DOMAIN f \cup {c} |-> IF k = c THEN value ELSE f[k]]

\* f without the entry of c
WithoutEntry(f, c) == [k \in DOMAIN f \ {c} |-> f[k]]

\* C9: an entry with the empty predicate is equivalent to no entry: for
\* every column c, the view under the filters with c mapped to "" equals the
\* view under the filters with c removed.
C9_EmptyPredicateIsAbsent ==
  ViewExists =>
    \A c \in ColumnNames :
      FilteredOf(data, WithEntry(filters, c, <<>>)) = FilteredOf(data, WithoutEntry(filters, c))

\* an entry with the empty predicate is set next to one that rejects a row
C9_Witness ==
  /\ ViewExists
  /\ \E c \in DOMAIN filters : filters[c] = <<>>
  /\ \E c \in DOMAIN filters : filters[c] # <<>>
  /\ Len(filteredData) = 1
  /\ Len(data.v) = 2

\* C10: a row without a value for a filtered column (key absent, or cell
\* null) is matched as the empty string: under a non-empty predicate for
\* that column it is not in the filtered view.
C10_AbsentCellIsEmptyString ==
  ViewExists =>
    \A i \in 1..Len(data.v) :
      \A c \in DOMAIN filters :
        (Get(data.v[i], c).t \in {"undefined", "null"} /\ filters[c] # <<>>)
          => ~IsIn(filteredData, data.v[i])

\* C11: filtering is idempotent: the FilterSet applied to the filtered view
\* gives the filtered view again.
C11_FilterIdempotent ==
  ViewExists => FilteredOf(Arr(filteredData), filters) = filteredData

\* a filter has rejected a row and kept another
C11_Witness ==
  /\ ViewExists
  /\ \E c \in DOMAIN filters : filters[c] # <<>>
  /\ Len(filteredData) >= 1
  /\ Len(filteredData) < Len(data.v)
  /\ FilteredOf(Arr(filteredData), filters) = filteredData

\* ------------------------------------------------------------------------
\* Properties of the numeric columns and of the Summary
\* ------------------------------------------------------------------------
\* the cell of the row coerces to a number that is finite
CoercesToFinite(row, c) == parseFloat(Get(row, c)).t = "number"

\* the cell of the row coerces to a number, finite or not
Coerces(row, c) == parseFloat(Get(row, c)).t \in {"number", "Infinity"}

\* C12: a column is numeric-capable iff the value of at least one row
\* coerces to a finite number; a column whose only values that look
\* coercible are not finite, or are text, is not in the set.
C12_NumericIffFiniteCell ==
  ViewExists =>
    \A i \in 1..Len(columnsOfData) :
      IsIn(numericColumns, columnsOfData[i])
        <=> \E r \in 1..Len(data.v) : CoercesToFinite(data.v[r], columnsOfData[i])

\* C13: the numeric columns depend on the Dataset only: whatever FilterSet
\* the edits have led to, they are the numeric columns of the same Dataset
\* under the empty FilterSet, so no sequence of edits changes them.
C13_NumericColumnsIgnoreFilters ==
  ViewExists =>
    useMemo(data, filters).numericColumns = useMemo(data, NoFilters).numericColumns

\* the filters have emptied the view of a Dataset that has a numeric column
C13_Witness ==
  /\ ViewExists
  /\ \E c \in DOMAIN filters : filters[c] # <<>>
  /\ Len(filteredData) = 0
  /\ Len(numericColumns) > 0

\* C14: calculateStats returns null iff no row of the filtered view has a
\* value in the column that coerces to a number; a Summary is never made of
\* no values, and calculateStats does not raise.
C14_NullIffNoNumericCell ==
  ViewExists =>
    /\ ~CalculateStatsThrows(filteredData)
    /\ \A c \in ColumnNames :
         /\ calculateStats(c) = Null
              <=> ~\E r \in 1..Len(filteredData) : Coerces(filteredData[r], c)
         /\ calculateStats(c) # Null => calculateStats(c).t = "object"

\* the filters keep rows none of which has a number in the column of the Y
\* axis, which is numeric in the Dataset
C14_Witness ==
  /\ ViewExists
  /\ Len(filteredData) > 0
  /\ yAxis # ""
  /\ IsIn(numericColumns, yAxis)
  /\ calculateStats(yAxis) = Null

\* number of rows whose cell in the column coerces to a number
CountOf(rows, c) == Cardinality({r \in 1..Len(rows) : Coerces(rows[r], c)})

\* C15: a Summary that is not null carries count, sum, mean, min and max:
\* count is the number of values that coerce, sum their sum, mean is
\* sum / count, min and max the least and the greatest of them; for the
\* values 10, "20", "abc", 30 that is 3, 60, 20, 10, 30.
C15_SummaryFields ==
  ViewExists =>
    \A c \in ColumnNames :
      LET s == calculateStats(c)
          values == StatValues(filteredData, c, 1)
      IN  s # Null =>
            /\ Get(s, "count") = Num(CountOf(filteredData, c))
            /\ Get(s, "sum") = SumFrom(values, 1, Num(0))
            /\ Get(s, "avg") = Divide(Get(s, "sum"), CountOf(filteredData, c))
            /\ \A i \in 1..Len(values) :
                 ~Less(values[i], Get(s, "min")) /\ ~Less(Get(s, "max"), values[i])
            /\ \E i \in 1..Len(values) : values[i] = Get(s, "min")
            /\ \E i \in 1..Len(values) : values[i] = Get(s, "max")
            /\ (Len(filteredData) = 4 /\ filteredData = data.v /\ c = "amount"
                  /\ data.v[1] = RowTen)
                 => /\ Get(s, "count") = Num(3)
                    /\ Get(s, "sum") = Num(60)
                    /\ Get(s, "avg") = Num(20)
                    /\ Get(s, "min") = Num(10)
                    /\ Get(s, "max") = Num(30)

\* C16: the classifier and the Summary agree: over the Dataset with no
\* filter a column is numeric iff its Summary is not null, and every cell
\* the classifier takes for a number is one of the values of the Summary.
C16_ClassifierAgreesWithSummary ==
  (ViewExists /\ DOMAIN filters = {}) =>
    \A i \in 1..Len(columnsOfData) :
      LET c == columnsOfData[i]
          values == StatValues(filteredData, c, 1)
      IN  /\ IsIn(numericColumns, c) <=> calculateStats(c) # Null
          /\ Len(values) = CountOf(data.v, c)
          /\ \A r \in 1..Len(data.v) :
               SomeNumeric(<<data.v[r]>>, c) = "true"
                 => IsIn(values, parseFloat(Get(data.v[r], c)))

\* a Dataset with no filter has a column whose only number is Infinity and
\* a column with numbers and text
C16_Witness ==
  /\ ViewExists
  /\ DOMAIN filters = {}
  /\ Len(data.v) = 4
  /\ IsIn(numericColumns, "note")
  /\ calculateStats("note") # Null
  /\ Len(StatValues(filteredData, "amount", 1)) = 3

\* ------------------------------------------------------------------------
\* Properties of exports
\* ------------------------------------------------------------------------
\* C17: a csv or excel export holds the selected columns only, in the order
\* in which they are displayed: the header of the saved sheet is
\* selectedColumns.
C17_WorkbookHasSelectedColumns ==
  download.kind \in {"csv", "xlsx"} => download.columns = selectedColumns

\* C18: a json export is the filtered view: read back, the saved text gives
\* the rows of the view, in its order, each with all its columns and their
\* values, whatever the selected columns are.
C18_JsonExportIsFilteredView ==
  download.kind = "json" =>
    LET r == JSONparse(download.text)
    IN  /\ ~r.threw
        /\ r.value.t = "array"
        /\ Len(r.value.v) = Len(filteredData)
        /\ \A i \in 1..Len(filteredData) :
             /\ KeyList(r.value.v[i]) = KeyList(filteredData[i])
             /\ \A c \in ColumnNames : Get(r.value.v[i], c) = Get(filteredData[i], c)

\* a json export was made while a filter rejected a row and a column of the
\* rows was not selected
C18_Witness ==
  /\ download.kind = "json"
  /\ calls = <<"exportData", "JSON.stringify">>
  /\ Len(filteredData) >= 1
  /\ Len(filteredData) < Len(data.v)
  /\ \E i \in 1..Len(columnsOfData) : ~IsIn(selectedColumns, columnsOfData[i])

\* C19: when the encoder raises, exportData reports "Failed to export data",
\* saves no file, and leaves data, filters, selectedColumns and the axes as
\* they were.
C19_FailedExportChangesNothing ==
  [][(Len(calls') > 0 /\ calls'[1] = "exportData" /\ IsIn(calls', "setError"))
       => /\ error' = "Failed to export data"
          /\ download' = NoDownload
          /\ UNCHANGED <<data, filters, selectedColumns, xAxis, yAxis>>]_vars

\* an export of a filtered view with a chosen column selection has failed
C19_Witness ==
  /\ Len(calls) = 3
  /\ calls[1] = "exportData"
  /\ calls[3] = "setError"
  /\ error = "Failed to export data"
  /\ download = NoDownload
  /\ DOMAIN filters # {}
  /\ Len(filteredData) >= 1
  /\ Len(selectedColumns) = 1

\* C20: with an empty FilterSet a json export read by the JSON parser gives
\* the Dataset again, and the upload of the saved file succeeds and installs
\* what the parser gives: the same rows in the same order with the same
\* keys in the same order.
C20_JsonRoundTrip ==
  [][/\ (download'.kind = "json" /\ DOMAIN filters' = {})
          => /\ JSONparse(download'.text) = Parsed(data')
             /\ KeyList(First(JSONparse(download'.text).value)) = ObjectKeys(First(data'))
     /\ \A p \in pending :
          (OnLoadStep(p) /\ p.file.name = ExportJsonName)
            => /\ ~p.file.json.threw
               /\ IsIn(calls', "setData")
               /\ error' = error
               /\ data' = p.file.json.value]_vars

\* the export of a Dataset of two rows, one with a null cell and with its
\* keys in another order than the other, was uploaded and installed
C20_Witness ==
  /\ fileName = ExportJsonName
  /\ calls = <<"reader.onload", "JSON.parse", "setData">>
  /\ error = ""
  /\ data = Arr(<<RowNullRegion, RowNorth>>)
  /\ selectedColumns = <<"amount", "region">>

\* ------------------------------------------------------------------------
\* Properties of the configuration and of the uploads in flight
\* ------------------------------------------------------------------------
\* C21: the configuration does not outlive the Dataset: while data is
\* empty the FilterSet is empty and xAxis, yAxis and selectedColumns name
\* no column (the only names they ever hold are columns of the Dataset
\* installed last, so any name left while data is empty is a column of the
\* discarded Dataset).
C21_ConfigurationDiesWithDataset ==
  LengthIsZero(data) =>
    /\ DOMAIN filters = {}
    /\ xAxis = ""
    /\ yAxis = ""
    /\ selectedColumns = <<>>

\* the value the decode of the file hands to setData, when it hands one
DecodedValue(file) ==
  IF IsWorkbookName(file.name) THEN Arr(file.workbook.value[1]) ELSE file.json.value

\* C22: data is replaced as a whole: every step leaves data as it was,
\* empties it (Clear Data), or installs the complete value one decode in
\* flight has produced; it never holds some of the rows of a decode or rows
\* of two decodes.
C22_DatasetReplacedAtomically ==
  [][\/ data' = data
     \/ data' = Arr(<<>>)
     \/ \E p \in pending :
          /\ OnLoadStep(p)
          /\ IsIn(calls', "setData")
          /\ data' = DecodedValue(p.file)]_vars

\* a Dataset of two rows has been replaced by the decode of another file
\* with two rows, none of which is a row of the first
C22_Witness ==
  /\ data = Arr(<<RowNullRegion, RowNorth>>)
  /\ calls = <<"reader.onload", "JSON.parse", "setData">>
  /\ ~loading
  /\ pending = {}

\* C24: at most one decode is in flight: an upload starts only while
\* loading is false and sets it, and it stays set until the callback.
C24_AtMostOneDecodeInFlight ==
  /\ Cardinality(pending) <= 1
  /\ pending # {} => loading

\* an upload is in flight over a Dataset that is shown no more
C24_Witness ==
  /\ Cardinality(pending) = 1
  /\ loading
  /\ LengthPositive(data)

\* the elements of s are pairwise different
NoDuplicates(s) == \A i, j \in 1..Len(s) : s[i] = s[j] => i = j

\* s with every element equal to c left out, order kept
Others(s, c) == SelectSeq(s, LAMBDA x : x # c)

\* C26: while the Dataset is non-empty selectedColumns has no duplicates and
\* each of its elements is a key of the first row, whatever uploads, toggles
\* and Select All came before; toggleColumn(c) flips the membership of c and
\* leaves the other selected columns and their order as they were.
C26_SelectedColumnsAreDistinctKeys ==
  [][/\ LengthPositive(data') =>
          /\ NoDuplicates(selectedColumns')
          /\ \A i \in 1..Len(selectedColumns') :
               IsIn(ObjectKeys(First(data')), selectedColumns'[i])
     /\ \A c \in ColumnNames :
          (selectedColumns' # selectedColumns /\ ToggleColumn(c)) =>
             /\ IsIn(selectedColumns', c) # IsIn(selectedColumns, c)
             /\ Others(selectedColumns', c) = Others(selectedColumns, c)]_vars

\* a column was toggled off and on again: it now stands behind the others
C26_Witness ==
  /\ LengthPositive(data)
  /\ ObjectKeys(First(data)) = <<"region", "amount">>
  /\ selectedColumns = <<"amount", "region">>

\* C28: the view configuration is reset when an upload starts and is not
\* restored when it fails: a reader callback that reports an error for an
\* upload over a non-empty Dataset leaves filters, selectedColumns, xAxis
\* and yAxis empty, fileName the name of the failing file, and data the
\* Dataset held before.
C28_FailedUploadLeavesResetConfiguration ==
  [][\A p \in pending :
       (Resolved(p) /\ error' # "" /\ LengthPositive(data)) =>
          /\ DOMAIN filters' = {}
          /\ selectedColumns' = <<>>
          /\ xAxis' = ""
          /\ yAxis' = ""
          /\ fileName' = p.file.name
          /\ data' = data]_vars

\* C25: every upload that has started returns loading to false, provided
\* its reader fires: each callback, whether onload succeeds, onload raises
\* or onerror runs, ends with loading false, and loading is true as long as
\* the reader is in flight.
C25_LoadingReturnsToFalse ==
  /\ [][\A p \in pending : Resolved(p) => ~loading']_vars
  /\ [](pending # {} => loading)
  /\ loading ~> ~loading

\* an upload over a Dataset has ended with a read error
C25_Witness ==
  /\ ~loading
  /\ pending = {}
  /\ error = "Error reading file"
  /\ LengthPositive(data)
  /\ fileName # <<>>

\* this step is a callback of some reader
CallbackStep ==
  Len(calls') > 0 /\ calls'[1] \in {"reader.onload", "reader.onerror"} /\ calls' # calls

\* C23: with two decodes in flight neither is cancelled (starting an upload
\* removes no reader, a callback removes its own reader only) and each
\* onload that installs a Dataset installs the one of its own decode over
\* whatever an earlier callback has installed: the Dataset left at the end
\* is that of the callback that ran last, whatever the order of the starts.
C23_LastCallbackWins ==
  [][/\ \A p \in pending :
          (OnLoadStep(p) /\ DecodedRows(p.file).ok /\ Len(DecodedRows(p.file).rows) >= 1)
            => data' = Arr(DecodedRows(p.file).rows)
     /\ \A p \in pending :
          p \in pending' \/ (Resolved(p) /\ Cardinality(pending') = Cardinality(pending) - 1)]_vars

\* s.csv was started last (fileName), its decode completed first, and the
\* decode of r.json, started before it, completed last: data is r.json's
C23_Witness ==
  /\ pending = {}
  /\ fileName = <<"s",".","c","s","v">>
  /\ data = Arr(<<RowNullRegion, RowNorth>>)
  /\ error = ""

\* the first column of cols with a cell that coerces to a finite number,
\* <<>> when there is none
FirstFinite(rows, cols) ==
  SelectSeq(cols, LAMBDA c : \E r \in 1..Len(rows) : CoercesToFinite(rows[r], c))

\* C27: right after a successful upload of rows with the column list C the
\* FilterSet is empty, selectedColumns is the first min(5, |C|) columns of
\* C, xAxis is the first column, and yAxis is the first numeric-capable
\* column of C (one with a cell that coerces to a finite number), or the
\* second column when there is none; with a single column yAxis is empty.
C27_DefaultsAfterUpload ==
  [][\A p \in pending :
       (/\ OnLoadStep(p)
        /\ error' = ""
        /\ DecodedRows(p.file).ok
        /\ Len(DecodedRows(p.file).rows) >= 1)
         => LET rows == DecodedRows(p.file).rows
                C == KeyList(rows[1])
                numeric == FirstFinite(rows, C)
            IN  /\ DOMAIN filters' = {}
                /\ selectedColumns' = SubSeq(C, 1, IF Len(C) < 5 THEN Len(C) ELSE 5)
                /\ xAxis' = C[1]
                /\ yAxis' = IF Len(C) = 1 THEN ""
                            ELSE IF numeric # <<>> THEN numeric[1]
                            ELSE C[2]]_vars

\* ------------------------------------------------------------------------
\* Properties of the FileUpload control and of the page shell
\* ------------------------------------------------------------------------
\* number of elements of s that are equal to x
Occurrences(s, x) == Cardinality({i \in 1..Len(s) : s[i] = x})

\* C29: a selected file whose type is none of text/csv,
\* application/vnd.ms-excel and application/json is rejected: onUpload is
\* not called and isLoading is false before and after.  For a file of one
\* of the three types onUpload is called once; every call has ended with
\* exactly one of the two notifications or is still awaited, and when the
\* awaited call resolves or rejects isLoading is false again.
C29_UploadControl ==
  [][/\ \A type \in MimeTypes, raises \in BOOLEAN :
          HandleFileChange(type, raises) =>
            IF type \in {"text/csv", "application/vnd.ms-excel", "application/json"}
              THEN /\ onUploadCalls' = Append(onUploadCalls, type)
                   /\ Occurrences(toasts', "Invalid File Type")
                        = Occurrences(toasts, "Invalid File Type")
              ELSE /\ onUploadCalls' = onUploadCalls
                   /\ ~isLoading /\ ~isLoading'
                   /\ toasts' = Append(toasts, "Invalid File Type")
     /\ Len(onUploadCalls')
          = Occurrences(toasts', "Upload Successful") + Occurrences(toasts', "Upload Failed")
            + (IF awaiting' THEN 1 ELSE 0)
     /\ (awaiting /\ ~awaiting') =>
          /\ ~isLoading'
          /\ onUploadCalls' = onUploadCalls
          /\ Len(toasts') = Len(toasts) + 1
     /\ isLoading' <=> awaiting']_vars

\* a file of a type that is not valid was rejected, one upload succeeded,
\* one failed, and a spreadsheet of the .xlsx type was rejected as well
C29_Witness ==
  /\ toasts = <<"Invalid File Type", "Upload Successful", "Upload Failed", "Invalid File Type">>
  /\ onUploadCalls = <<"text/csv", "application/json">>
  /\ ~isLoading

\* C30: selecting a file sets isAnalyzing; when the timer fires results is
\* not null, isAnalyzing is false and activeTab is 'dashboard', whatever tab
\* was chosen during the analysis, and with a timer that fires an analysis
\* does end so; results never returns to null; while not analyzing the
\* dashboard content is shown iff activeTab is 'dashboard' and results is
\* not null, and the home content in every other case, on the features tab
\* beside the features content.
C30_PageShell ==
  /\ [][/\ (\E name \in FileNames : SelectFile(name)) => isAnalyzing'
        /\ timers' < timers =>
             (results' # Null /\ ~isAnalyzing' /\ activeTab' = "dashboard")
        /\ results # Null => results' # Null]_vars
  /\ [](~isAnalyzing =>
          /\ IsIn(MainContent, "DashboardTab") <=> (activeTab = "dashboard" /\ results # Null)
          /\ IsIn(MainContent, "HomeTab") <=> ~(activeTab = "dashboard" /\ results # Null)
          /\ IsIn(MainContent, "FeaturesTab") <=> activeTab = "features")
  /\ isAnalyzing ~> (~isAnalyzing /\ results # Null /\ activeTab = "dashboard")

\* after an analysis of the file b the features tab was chosen: the
\* features content and the home content are shown together
C30_Witness ==
  /\ ~isAnalyzing
  /\ results # Null
  /\ selectedFile = Str(<<"b">>)
  /\ activeTab = "features"
  /\ MainContent = <<"FeaturesTab", "HomeTab">>

====
